---------------------------- MODULE Spec2Model ----------------------------
(***************************************************************************)
(* Data-access layer of src/database.py over the SQLite file               *)
(* e2ee_users.db: three tables (users, user_configs, admin_threads) and    *)
(* ten public operations, each opening its own connection.                 *)
(*                                                                         *)
(* The committed content of the database file is the state.  A connection  *)
(* that an operation opened and did not close stays open until the         *)
(* interpreter's garbage collector finalizes it; if it had started a write *)
(* it keeps SQLite's RESERVED lock until then (variable wlock).            *)
(* Columns created_at / updated_at are never read by any operation and     *)
(* are left out of the rows.                                               *)
(***************************************************************************)
EXTENDS Integers, Sequences, FiniteSets, TLC

(* ------------------------------ bounds -------------------------------- *)
MaxNames == 2        \* distinct usernames offered to create_user / verify_user
MaxCfg   == 1        \* distinct argument tuples offered to update_user_config
MaxThr   == 1        \* distinct argument tuples offered to set_admin_e2ee_thread_id

NamePool == <<"alice", "bob", "carol", "dave">>
Usernames == {NamePool[i] : i \in 1..MaxNames}
Passwords == {"pw1", "pw2"}
\* identifiers offered to the operations; one has a users row only once that
\* many accounts were created
UserIds == 1..MaxNames
Procs == {"p1", "p2"}

ChatPool   == <<"chat1", "chat2", "chat3", "chat4">>
PrefixPool == <<"prefix1", "prefix2", "prefix3", "prefix4">>
CookiePool == <<"cookie1", "cookie2", "cookie3", "cookie4">>
MsgPool    == <<"msg1", "msg2", "msg3", "msg4">>
ThreadPool == <<"thread1", "thread2", "thread3", "thread4">>
TypePool   == <<"type1", "type2", "type3", "type4">>

\* the five mutable fields passed to update_user_config
CfgArgs == {[chat_id |-> ChatPool[k], name_prefix |-> PrefixPool[k], delay |-> k,
             cookies |-> CookiePool[k], messages |-> MsgPool[k]] : k \in 1..MaxCfg}
\* the three values passed to set_admin_e2ee_thread_id
ThrArgs == {[thread_id |-> ThreadPool[k], cookies |-> CookiePool[k],
             chat_type |-> TypePool[k]] : k \in 1..MaxThr}

(* --------------------------- Python values ---------------------------- *)
\* Optional values: None is the empty tuple, a present value v is <<v>>.
None == << >>
Some(v) == <<v>>

\* hashlib.sha256(password.encode()).hexdigest(): deterministic, and
\* collision-free on the passwords used here.
sha256(password) == <<"sha256", password>>

\* `1 if running else 0`
BoolToInt(running) == IF running THEN 1 ELSE 0

(* ------------------------------- state -------------------------------- *)
VARIABLES
    users,            \* committed rows of table users, in rowid order
    user_configs,     \* committed rows of table user_configs
    admin_threads,    \* committed rows of table admin_threads
    sqlite_sequence,  \* AUTOINCREMENT high-water mark of users.id
    wlock,            \* holder of the RESERVED (write) lock: "none", a process, or "leaked"
    last,             \* the most recent sequential call: operation, arguments, outcome
    created,          \* history: <<username, password>> of every successful create_user
    pc,               \* per process: position inside set_admin_e2ee_thread_id
    loc               \* per process: arguments, `existing`, uncommitted table, exit, result

tables == <<users, user_configs, admin_threads, sqlite_sequence>>
history == <<created>>
conc == <<pc, loc>>
vars == <<users, user_configs, admin_threads, sqlite_sequence, wlock, last,
          created, pc, loc>>

(* ----------------------------- SQL helpers ----------------------------- *)
Min(S) == CHOOSE x \in S : \A y \in S : x <= y

\* cursor.fetchone() over the rows whose index is in idxs
FetchOne(tbl, idxs) == IF idxs = {} THEN None ELSE Some(tbl[Min(idxs)])

\* WHERE username = ?
ByUsername(tbl, username) == {i \in DOMAIN tbl : tbl[i].username = username}
\* WHERE id = ?
ById(tbl, id) == {i \in DOMAIN tbl : tbl[i].id = id}
\* WHERE user_id = ?
ByUserId(tbl, user_id) == {i \in DOMAIN tbl : tbl[i].user_id = user_id}

\* users.username TEXT UNIQUE NOT NULL
UsernameUnique(tbl, username) == ByUsername(tbl, username) = {}
\* user_configs.user_id / admin_threads.user_id INTEGER PRIMARY KEY
UserIdUnique(tbl, user_id) == ByUserId(tbl, user_id) = {}

\* The row create_user inserts into user_configs; automation_running takes
\* its column default 0.
DefaultMessages == "Hello!\nHow are you?\nNice to meet you!"
DefaultConfig(user_id) ==
    [user_id |-> user_id, chat_id |-> "", name_prefix |-> "[END TO END]",
     delay |-> 10, cookies |-> "", messages |-> DefaultMessages,
     automation_running |-> 0]

\* Variant: every statement is committed as soon as it has run (autocommit).
Uncommitted_Autocommit(committed, working) == working

\* What becomes of a transaction's writes when the operation leaves through
\* an except clause: no commit was issued, so the database file keeps its
\* committed content (the open transaction is rolled back when the
\* connection is finalized).
Uncommitted(committed, working) == committed

(* ------------------------------- Init --------------------------------- *)
IdleLoc == [user_id |-> None, args |-> None, existing |-> None, work |-> None,
            exit |-> "none", ret |-> None]

\* Arguments and return value of a call, as records with one field per
\* parameter / kind of result; a field that a call does not use keeps the
\* value it has here.
NoArgs == [username |-> "", password |-> "", user_id |-> 0,
           cfg |-> [chat_id |-> "", name_prefix |-> "", delay |-> 0,
                    cookies |-> "", messages |-> ""],
           running |-> FALSE,
           thread |-> [thread_id |-> "", cookies |-> "", chat_type |-> ""]]
NoRet == [ok |-> FALSE, message |-> "", user_id |-> None, config |-> None,
          running |-> 0, username |-> None, thread_id |-> None]

ArgsAccount(username, password) ==
    [NoArgs EXCEPT !.username = username, !.password = password]
ArgsId(user_id) == [NoArgs EXCEPT !.user_id = user_id]
ArgsConfig(user_id, cfg) == [NoArgs EXCEPT !.user_id = user_id, !.cfg = cfg]
ArgsRunning(user_id, running) == [NoArgs EXCEPT !.user_id = user_id, !.running = running]
ArgsThread(user_id, a) == [NoArgs EXCEPT !.user_id = user_id, !.thread = a]

RetPair(ok, message) == [NoRet EXCEPT !.ok = ok, !.message = message]
RetBool(ok) == [NoRet EXCEPT !.ok = ok]
RetUserId(id) == [NoRet EXCEPT !.user_id = id]
RetConfig(config) == [NoRet EXCEPT !.config = config]
RetRunning(value) == [NoRet EXCEPT !.running = value]
RetUsername(username) == [NoRet EXCEPT !.username = username]
RetThreadId(thread_id) == [NoRet EXCEPT !.thread_id = thread_id]

NoCall == [op |-> "import", args |-> NoArgs, ret |-> NoRet, fault |-> "none",
           raised |-> FALSE, acquired |-> TRUE, closed |-> TRUE]

\* State after `import database`: init_db() has created the three empty tables.
Init ==
    /\ users = << >>
    /\ user_configs = << >>
    /\ admin_threads = << >>
    /\ sqlite_sequence = 0
    /\ wlock = "none"
    /\ last = NoCall
    /\ created = {}
    /\ pc = [p \in Procs |-> "idle"]
    /\ loc = [p \in Procs |-> IdleLoc]


(* ------------------------ outcomes of an operation --------------------- *)
\* f names the store call of the operation that fails for a reason outside
\* the program (file cannot be opened, disk I/O error, disk full), raising
\* sqlite3.OperationalError; "none": no such failure.
NoFault == "none"
InitFaults == {"connect", "create_table", "commit"}
CreateFaults == {"connect", "insert_user", "select_id", "insert_config", "commit"}
ReadFaults == {"connect", "select"}
WriteFaults == {"connect", "update", "commit"}
UpsertFaults == {"connect", "select", "write", "commit"}

\* get_db_connection(): sqlite3.connect('e2ee_users.db') succeeds unless the
\* file cannot be opened
get_db_connection(f) == f # "connect"

\* A write statement (INSERT / UPDATE) needs the RESERVED lock; when another
\* connection holds it the statement raises "database is locked" once the
\* busy timeout has passed.
Busy(me) == wlock # "none" /\ wlock # me

\* The lock after an operation ended through an except clause while its
\* connection was inside a write transaction: nothing ends the transaction,
\* so the connection keeps the lock.  (Where SQLite itself rolls back on the
\* error, the lock is free at once: the state Finalize leads to.)
LockAfterError == "leaked"

\* The record of a finished call.  fault: the store call that failed for an
\* external reason; raised: an exception left the operation; acquired: a
\* connection was opened; closed: the operation called conn.close() on it.
Call(op, args, ret, fault, raised, acquired, closed) ==
    [op |-> op, args |-> args, ret |-> ret, fault |-> fault,
     raised |-> raised, acquired |-> acquired, closed |-> closed]

(* ------------------------------ init_db -------------------------------- *)
\* CREATE TABLE IF NOT EXISTS x3, commit, close; no try/except around it.
\* The tables exist already, so a successful run changes nothing.
init_db(f) ==
    /\ last' = IF f = NoFault
               THEN Call("init_db", NoArgs, NoRet, NoFault, FALSE, TRUE, TRUE)
               ELSE Call("init_db", NoArgs, NoRet, f, TRUE, get_db_connection(f), FALSE)
    /\ UNCHANGED <<tables, wlock, history, conc>>

(* ----------------------------- create_user ----------------------------- *)
\* id INTEGER PRIMARY KEY AUTOINCREMENT
NextId(tbl, seq) ==
    LET ids == {tbl[i].id : i \in DOMAIN tbl} \cup {seq}
    IN  (CHOOSE m \in ids : \A x \in ids : x <= m) + 1

\* INSERT INTO users (username, password_hash) VALUES (?, ?); is_active
\* takes its column default 1
InsertUser(tbl, seq, username, password_hash) ==
    Append(tbl, [id |-> NextId(tbl, seq), username |-> username,
                 password_hash |-> password_hash, is_active |-> 1])

\* SELECT id FROM users WHERE username = ?  ... .fetchone()['id']
SelectUserId(tbl, username) == FetchOne(tbl, ByUsername(tbl, username))[1].id

\* The exit create_user takes, from its first failing call.
create_user_exit(username, f) ==
    LET users_w == InsertUser(users, sqlite_sequence, username, "")
    IN  CASE ~get_db_connection(f) -> "connect"
          [] Busy("create_user") -> "locked"
          [] f = "insert_user" -> "fault"
          [] ~UsernameUnique(users, username) -> "dup_username"
          [] f \in {"select_id", "insert_config"} -> "fault"
          [] ~UserIdUnique(user_configs, SelectUserId(users_w, username)) -> "dup_user_id"
          [] f = "commit" -> "fault"
          [] OTHER -> "ok"

create_user(username, password, f) ==
    LET password_hash == sha256(password)
        users_w == InsertUser(users, sqlite_sequence, username, password_hash)
        user_id == SelectUserId(users_w, username)
        configs_w == Append(user_configs, DefaultConfig(user_id))
        exit == create_user_exit(username, f)
        \* rows written inside the transaction when the exception was raised
        inserted == \/ exit = "fault" /\ f # "insert_user"
                    \/ exit = "dup_user_id"
        users_e == IF inserted THEN users_w ELSE users
        configs_e == IF exit = "fault" /\ f = "commit" THEN configs_w ELSE user_configs
        seq_e == IF inserted THEN user_id ELSE sqlite_sequence
    IN  /\ IF exit = "ok"
           THEN /\ users' = users_w
                /\ user_configs' = configs_w
                /\ sqlite_sequence' = user_id
                /\ created' = created \cup {<<username, password>>}
           ELSE /\ users' = Uncommitted(users, users_e)
                /\ user_configs' = Uncommitted(user_configs, configs_e)
                /\ sqlite_sequence' = Uncommitted(sqlite_sequence, seq_e)
                /\ UNCHANGED created
        /\ wlock' = IF exit \in {"dup_username", "dup_user_id", "fault"}
                    THEN LockAfterError ELSE wlock
        /\ last' = CASE exit = "ok" ->
                          Call("create_user", ArgsAccount(username, password),
                               RetPair(TRUE, "Account created successfully!"), NoFault, FALSE, TRUE, TRUE)
                     [] exit \in {"dup_username", "dup_user_id"} ->
                          Call("create_user", ArgsAccount(username, password),
                               RetPair(FALSE, "Username already exists!"), NoFault, FALSE, TRUE, FALSE)
                     [] exit = "locked" ->
                          Call("create_user", ArgsAccount(username, password),
                               RetPair(FALSE, "Error: database is locked"), NoFault, FALSE, TRUE, FALSE)
                     [] exit = "connect" ->
                          Call("create_user", ArgsAccount(username, password),
                               RetPair(FALSE, "Error: unable to open database file"), f, FALSE, FALSE, FALSE)
                     [] OTHER ->
                          Call("create_user", ArgsAccount(username, password),
                               RetPair(FALSE, "Error: disk I/O error"), f, FALSE, TRUE, FALSE)
        /\ UNCHANGED <<admin_threads, conc>>

(* ------------------------------ readers -------------------------------- *)
\* A reader makes two store calls: connect and its SELECT.  On an
\* exception it returns its neutral value without closing the connection.
ReadCall(op, args, value, neutral, f) ==
    IF f = NoFault THEN Call(op, args, value, NoFault, FALSE, TRUE, TRUE)
    ELSE Call(op, args, neutral, f, FALSE, get_db_connection(f), FALSE)

\* Variant: the lookup without the password_hash condition.
verify_user_result_AnyPassword(username, password) ==
    LET user == FetchOne(users, {i \in ByUsername(users, username) : users[i].is_active = 1})
    IN  IF user # None THEN Some(user[1].id) ELSE None

\* SELECT id FROM users WHERE username = ? AND password_hash = ? AND is_active = 1
verify_user_result(username, password) ==
    LET password_hash == sha256(password)
        user == FetchOne(users, {i \in ByUsername(users, username) :
                                    /\ users[i].password_hash = password_hash
                                    /\ users[i].is_active = 1})
    IN  IF user # None THEN Some(user[1].id) ELSE None

verify_user(username, password, f) ==
    /\ last' = ReadCall("verify_user", ArgsAccount(username, password),
                        RetUserId(verify_user_result(username, password)),
                        RetUserId(None), f)
    /\ UNCHANGED <<tables, wlock, history, conc>>

\* SELECT chat_id, name_prefix, delay, cookies, messages FROM user_configs WHERE user_id = ?
get_user_config_result(user_id) ==
    LET config == FetchOne(user_configs, ByUserId(user_configs, user_id))
    IN  IF config # None
        THEN Some([chat_id |-> config[1].chat_id, name_prefix |-> config[1].name_prefix,
                   delay |-> config[1].delay, cookies |-> config[1].cookies,
                   messages |-> config[1].messages])
        ELSE None

get_user_config(user_id, f) ==
    /\ last' = ReadCall("get_user_config", ArgsId(user_id),
                        RetConfig(get_user_config_result(user_id)), RetConfig(None), f)
    /\ UNCHANGED <<tables, wlock, history, conc>>

\* SELECT automation_running FROM user_configs WHERE user_id = ?
\* Returns the stored integer, or Python's False (the integer 0) without a row.
get_automation_running_result(tbl, user_id) ==
    LET result == FetchOne(tbl, ByUserId(tbl, user_id))
    IN  IF result # None THEN result[1].automation_running ELSE BoolToInt(FALSE)

get_automation_running(user_id, f) ==
    /\ last' = ReadCall("get_automation_running", ArgsId(user_id),
                        RetRunning(get_automation_running_result(user_configs, user_id)),
                        RetRunning(BoolToInt(FALSE)), f)
    /\ UNCHANGED <<tables, wlock, history, conc>>

\* SELECT username FROM users WHERE id = ?
get_username_result(user_id) ==
    LET user == FetchOne(users, ById(users, user_id))
    IN  IF user # None THEN Some(user[1].username) ELSE None

get_username(user_id, f) ==
    /\ last' = ReadCall("get_username", ArgsId(user_id),
                        RetUsername(get_username_result(user_id)), RetUsername(None), f)
    /\ UNCHANGED <<tables, wlock, history, conc>>

\* SELECT thread_id FROM admin_threads WHERE user_id = ?
get_admin_e2ee_thread_id_result(tbl, user_id) ==
    LET result == FetchOne(tbl, ByUserId(tbl, user_id))
    IN  IF result # None THEN Some(result[1].thread_id) ELSE None

get_admin_e2ee_thread_id(user_id, f) ==
    /\ last' = ReadCall("get_admin_e2ee_thread_id", ArgsId(user_id),
                        RetThreadId(get_admin_e2ee_thread_id_result(admin_threads, user_id)),
                        RetThreadId(None), f)
    /\ UNCHANGED <<tables, wlock, history, conc>>

(* ------------------------------ writers -------------------------------- *)
\* The exit of an operation that issues one write statement and commits.
write_exit(me, f) ==
    CASE ~get_db_connection(f) -> "connect"
      [] Busy(me) -> "locked"
      [] f # NoFault -> "fault"
      [] OTHER -> "ok"

\* The record of a writer's call: True after commit and close, False from
\* the except clause (connection not closed).
WriteCall(op, args, exit, f) ==
    IF exit = "ok" THEN Call(op, args, RetBool(TRUE), NoFault, FALSE, TRUE, TRUE)
    ELSE Call(op, args, RetBool(FALSE),
              IF exit \in {"connect", "read_fault", "fault"} THEN f ELSE NoFault,
              FALSE, exit # "connect", FALSE)

\* UPDATE user_configs SET chat_id = ?, name_prefix = ?, delay = ?, cookies = ?,
\*   messages = ?, updated_at = CURRENT_TIMESTAMP WHERE user_id = ?
UpdateConfig(tbl, user_id, cfg) ==
    [i \in DOMAIN tbl |->
        IF tbl[i].user_id = user_id
        THEN [tbl[i] EXCEPT !.chat_id = cfg.chat_id, !.name_prefix = cfg.name_prefix,
                            !.delay = cfg.delay, !.cookies = cfg.cookies,
                            !.messages = cfg.messages]
        ELSE tbl[i]]

update_user_config(user_id, cfg, f) ==
    LET exit == write_exit("update_user_config", f)
        configs_w == UpdateConfig(user_configs, user_id, cfg)
    IN  /\ user_configs' = IF exit = "ok" THEN configs_w
                           ELSE Uncommitted(user_configs,
                                            IF exit = "fault" /\ f = "commit"
                                            THEN configs_w ELSE user_configs)
        /\ wlock' = IF exit = "fault" THEN LockAfterError ELSE wlock
        /\ last' = WriteCall("update_user_config", ArgsConfig(user_id, cfg), exit, f)
        /\ UNCHANGED <<users, admin_threads, sqlite_sequence, history, conc>>

\* UPDATE user_configs SET automation_running = ? WHERE user_id = ?
UpdateRunning(tbl, user_id, value) ==
    [i \in DOMAIN tbl |->
        IF tbl[i].user_id = user_id
        THEN [tbl[i] EXCEPT !.automation_running = value]
        ELSE tbl[i]]

set_automation_running(user_id, running, f) ==
    LET exit == write_exit("set_automation_running", f)
        configs_w == UpdateRunning(user_configs, user_id, BoolToInt(running))
    IN  /\ user_configs' = IF exit = "ok" THEN configs_w
                           ELSE Uncommitted(user_configs,
                                            IF exit = "fault" /\ f = "commit"
                                            THEN configs_w ELSE user_configs)
        /\ wlock' = IF exit = "fault" THEN LockAfterError ELSE wlock
        /\ last' = WriteCall("set_automation_running", ArgsRunning(user_id, running), exit, f)
        /\ UNCHANGED <<users, admin_threads, sqlite_sequence, history, conc>>

(* ----------------------- set_admin_e2ee_thread_id ---------------------- *)
\* SELECT user_id FROM admin_threads WHERE user_id = ?  ... .fetchone()
SelectExisting(tbl, user_id) == FetchOne(tbl, ByUserId(tbl, user_id)) # None

\* UPDATE admin_threads SET thread_id = ?, cookies = ?, chat_type = ?,
\*   created_at = CURRENT_TIMESTAMP WHERE user_id = ?
UpdateThread(tbl, user_id, a) ==
    [i \in DOMAIN tbl |->
        IF tbl[i].user_id = user_id
        THEN [tbl[i] EXCEPT !.thread_id = a.thread_id, !.cookies = a.cookies,
                            !.chat_type = a.chat_type]
        ELSE tbl[i]]

\* Variant: admin_threads declared without PRIMARY KEY on user_id.
InsertThreadAllowed_NoPrimaryKey(tbl, user_id) == TRUE

\* INSERT INTO admin_threads (user_id, thread_id, cookies, chat_type) VALUES (?, ?, ?, ?)
\* is accepted only if the primary key user_id stays unique
InsertThreadAllowed(tbl, user_id) == UserIdUnique(tbl, user_id)

InsertThread(tbl, user_id, a) ==
    Append(tbl, [user_id |-> user_id, thread_id |-> a.thread_id,
                 cookies |-> a.cookies, chat_type |-> a.chat_type])

\* the statement chosen by `if existing:`
WriteThread(tbl, existing, user_id, a) ==
    IF existing THEN UpdateThread(tbl, user_id, a) ELSE InsertThread(tbl, user_id, a)

\* Sequential use: the whole call runs with no other connection active.
set_admin_e2ee_thread_id(user_id, a, f) ==
    LET existing == SelectExisting(admin_threads, user_id)
        threads_w == WriteThread(admin_threads, existing, user_id, a)
        exit == CASE ~get_db_connection(f) -> "connect"
                  [] f = "select" -> "read_fault"
                  [] Busy("set_admin_e2ee_thread_id") -> "locked"
                  [] f = "write" -> "fault"
                  [] ~existing /\ ~InsertThreadAllowed(admin_threads, user_id) -> "integrity"
                  [] f = "commit" -> "fault"
                  [] OTHER -> "ok"
    IN  /\ admin_threads' = IF exit = "ok" THEN threads_w
                            ELSE Uncommitted(admin_threads,
                                             IF exit = "fault" /\ f = "commit"
                                             THEN threads_w ELSE admin_threads)
        /\ wlock' = IF exit \in {"integrity", "fault"} THEN LockAfterError ELSE wlock
        /\ last' = WriteCall("set_admin_e2ee_thread_id", ArgsThread(user_id, a), exit, f)
        /\ UNCHANGED <<users, user_configs, sqlite_sequence, history, conc>>

(* ------------------------- garbage collection -------------------------- *)
\* The garbage collector finalizes a connection that an operation left open
\* inside a write transaction: the transaction is rolled back and the
\* RESERVED lock released.  When this happens is up to the interpreter.
Finalize ==
    /\ wlock = "leaked"
    /\ wlock' = "none"
    /\ UNCHANGED <<tables, last, history, conc>>

(* --------------------------- specifications ---------------------------- *)
\* Sequential use over a store that never fails for external reasons.
Next ==
    \/ init_db(NoFault)
    \/ \E username \in Usernames, password \in Passwords :
          create_user(username, password, NoFault)
    \/ \E username \in Usernames, password \in Passwords :
          verify_user(username, password, NoFault)
    \/ \E user_id \in UserIds : get_user_config(user_id, NoFault)
    \/ \E user_id \in UserIds, cfg \in CfgArgs :
          update_user_config(user_id, cfg, NoFault)
    \/ \E user_id \in UserIds, running \in BOOLEAN :
          set_automation_running(user_id, running, NoFault)
    \/ \E user_id \in UserIds : get_automation_running(user_id, NoFault)
    \/ \E user_id \in UserIds : get_username(user_id, NoFault)
    \/ \E user_id \in UserIds, a \in ThrArgs :
          set_admin_e2ee_thread_id(user_id, a, NoFault)
    \/ \E user_id \in UserIds : get_admin_e2ee_thread_id(user_id, NoFault)
    \/ Finalize

Spec == Init /\ [][Next]_vars

\* Sequential use over a store whose calls may fail for external reasons.
NextFault ==
    \/ \E f \in {NoFault} \cup InitFaults : init_db(f)
    \/ \E username \in Usernames, password \in Passwords, f \in {NoFault} \cup CreateFaults :
          create_user(username, password, f)
    \/ \E username \in Usernames, password \in Passwords, f \in {NoFault} \cup ReadFaults :
          verify_user(username, password, f)
    \/ \E user_id \in UserIds, f \in {NoFault} \cup ReadFaults : get_user_config(user_id, f)
    \/ \E user_id \in UserIds, cfg \in CfgArgs, f \in {NoFault} \cup WriteFaults :
          update_user_config(user_id, cfg, f)
    \/ \E user_id \in UserIds, running \in BOOLEAN, f \in {NoFault} \cup WriteFaults :
          set_automation_running(user_id, running, f)
    \/ \E user_id \in UserIds, f \in {NoFault} \cup ReadFaults :
          get_automation_running(user_id, f)
    \/ \E user_id \in UserIds, f \in {NoFault} \cup ReadFaults : get_username(user_id, f)
    \/ \E user_id \in UserIds, a \in ThrArgs, f \in {NoFault} \cup UpsertFaults :
          set_admin_e2ee_thread_id(user_id, a, f)
    \/ \E user_id \in UserIds, f \in {NoFault} \cup ReadFaults :
          get_admin_e2ee_thread_id(user_id, f)
    \/ Finalize

SpecFault == Init /\ [][NextFault]_vars

(* ------------- set_admin_e2ee_thread_id, statement by statement -------- *)
\* Two callers, each on its own connection; a step is one store call.

\* conn = get_db_connection()
UpsertBegin(p, user_id, a) ==
    /\ pc[p] = "idle"
    /\ pc' = [pc EXCEPT ![p] = "select"]
    /\ loc' = [loc EXCEPT ![p] = [IdleLoc EXCEPT !.user_id = Some(user_id), !.args = Some(a)]]
    /\ UNCHANGED <<tables, wlock, last, history>>

\* existing = conn.execute('SELECT user_id ...').fetchone(): reads the
\* committed table
UpsertSelect(p) ==
    /\ pc[p] = "select"
    /\ pc' = [pc EXCEPT ![p] = "write"]
    /\ loc' = [loc EXCEPT ![p].existing =
                  Some(SelectExisting(admin_threads, loc[p].user_id[1]))]
    /\ UNCHANGED <<tables, wlock, last, history>>

\* the UPDATE or INSERT: takes the RESERVED lock; an INSERT that breaks the
\* primary key raises IntegrityError, and the except clause returns False
\* with the connection still open inside its transaction
UpsertWrite(p) ==
    /\ pc[p] = "write"
    /\ ~Busy(p)
    /\ LET user_id == loc[p].user_id[1]
           existing == loc[p].existing[1]
       IN  IF ~existing /\ ~InsertThreadAllowed(admin_threads, user_id)
           THEN /\ pc' = [pc EXCEPT ![p] = "idle"]
                /\ loc' = [loc EXCEPT ![p].exit = "integrity", ![p].ret = Some(FALSE)]
                /\ wlock' = LockAfterError
           ELSE /\ pc' = [pc EXCEPT ![p] = "commit"]
                /\ loc' = [loc EXCEPT ![p].work =
                              Some(WriteThread(admin_threads, existing, user_id, loc[p].args[1]))]
                /\ wlock' = p
    /\ UNCHANGED <<tables, last, history>>

\* the UPDATE or INSERT while another connection holds the lock for longer
\* than the busy timeout: "database is locked", the except clause returns False
UpsertWriteLocked(p) ==
    /\ pc[p] = "write"
    /\ Busy(p)
    /\ pc' = [pc EXCEPT ![p] = "idle"]
    /\ loc' = [loc EXCEPT ![p].exit = "locked", ![p].ret = Some(FALSE)]
    /\ UNCHANGED <<tables, wlock, last, history>>

\* conn.commit(); conn.close(); return True
UpsertCommit(p) ==
    /\ pc[p] = "commit"
    /\ admin_threads' = loc[p].work[1]
    /\ wlock' = "none"
    /\ pc' = [pc EXCEPT ![p] = "idle"]
    /\ loc' = [loc EXCEPT ![p].work = None, ![p].exit = "ok", ![p].ret = Some(TRUE)]
    /\ UNCHANGED <<users, user_configs, sqlite_sequence, last, history>>

NextConc ==
    \/ \E p \in Procs, user_id \in UserIds, a \in ThrArgs : UpsertBegin(p, user_id, a)
    \/ \E p \in Procs : UpsertSelect(p)
    \/ \E p \in Procs : UpsertWrite(p)
    \/ \E p \in Procs : UpsertWriteLocked(p)
    \/ \E p \in Procs : UpsertCommit(p)
    \/ Finalize

SpecConc == Init /\ [][NextConc]_vars

(* ------------------------------ properties ---------------------------- *)
\* A step in which the operation op was called (Finalize is the only step
\* that takes wlock from "leaked" to "none", and it leaves last alone).
CallStep(op) == last'.op = op /\ ~(wlock = "leaked" /\ wlock' = "none")

\* the user_configs rows of a user id, as a set of row indices
ConfigRows(cfgs, id) == {j \in DOMAIN cfgs : cfgs[j].user_id = id}
\* the admin_threads rows of a user id
ThreadRows(thr, id) == {j \in DOMAIN thr : thr[j].user_id = id}

\* the store holds the default config row for the users row named username
HasDefaultConfig(us, cfgs, username) ==
    /\ ByUsername(us, username) # {}
    /\ \A i \in ByUsername(us, username) :
          /\ ConfigRows(cfgs, us[i].id) # {}
          /\ \A j \in ConfigRows(cfgs, us[i].id) :
                cfgs[j] = [user_id |-> us[i].id, chat_id |-> "",
                           name_prefix |-> "[END TO END]", delay |-> 10, cookies |-> "",
                           messages |-> "Hello!\nHow are you?\nNice to meet you!",
                           automation_running |-> 0]

\* C1: create_user called with a username that no users row has returns
\* (True, "Account created successfully!") and the store then holds the
\* default user_configs row (chat_id '', name_prefix '[END TO END]', delay 10,
\* cookies '', the three sample lines, automation_running 0) for the new id.
C1_NewUsernameAlwaysCreated ==
    [][ (CallStep("create_user") /\ UsernameUnique(users, last'.args.username))
          => /\ last'.ret.ok = TRUE
             /\ last'.ret.message = "Account created successfully!"
             /\ HasDefaultConfig(users', user_configs', last'.args.username) ]_vars

\* C2: create_user called with a username that a users row already has
\* returns (False, "Username already exists!") and leaves users, user_configs
\* and admin_threads as they were.
C2_DuplicateRejectedUnchanged ==
    [][ (CallStep("create_user") /\ ~UsernameUnique(users, last'.args.username))
          => /\ last'.ret.ok = FALSE
             /\ last'.ret.message = "Username already exists!"
             /\ users' = users
             /\ user_configs' = user_configs
             /\ admin_threads' = admin_threads ]_vars

\* C3: in every state, for every account created by create_user(u, p):
\* verify_user(u, p) returns an id that get_username maps back to u, while
\* verify_user with a wrong password or with a username never created both
\* return None; and the result recorded by the last verify_user call is of
\* that form.
VerifyAsCreated(username, password, ret) ==
    IF <<username, password>> \in created
    THEN ret # None /\ get_username_result(ret[1]) = Some(username)
    ELSE ret = None

C3_VerifyMatchesCreation ==
    /\ \A username \in Usernames, password \in Passwords :
          VerifyAsCreated(username, password, verify_user_result(username, password))
    /\ last.op = "verify_user" /\ last.fault = NoFault
          => VerifyAsCreated(last.args.username, last.args.password, last.ret.user_id)

\* C3 witness: accounts exist, and the last call was a verify_user with a
\* wrong password for an existing username, answered None
C3_Witness ==
    /\ last.op = "verify_user"
    /\ last.ret.user_id = None
    /\ ByUsername(users, last.args.username) # {}
    /\ \E password \in Passwords : verify_user_result(last.args.username, password) # None

\* C4: whenever update_user_config(id, ...) returned True, a get_user_config(id)
\* that follows it returns exactly the five values written.
C4_UpdateThenReadRoundTrip ==
    [][ (/\ last.op = "update_user_config"
         /\ last.ret.ok = TRUE
         /\ CallStep("get_user_config")
         /\ last'.args.user_id = last.args.user_id)
          => last'.ret.config = Some(last.args.cfg) ]_vars

\* C5: get_automation_running(id) returns the value of the latest
\* set_automation_running(id, b) made for an existing user, 0 for a user
\* whose flag was never set since create_user, is not changed by any other
\* operation (update_user_config in particular), and is 0 (False) for an id
\* without a user_configs row.
C5_RunningFollowsLastSet ==
    [][ /\ (CallStep("set_automation_running") /\ ById(users, last'.args.user_id) # {})
             => get_automation_running_result(user_configs', last'.args.user_id)
                   = BoolToInt(last'.args.running)
        /\ (CallStep("create_user") /\ last'.ret.ok)
             => get_automation_running_result(user_configs',
                                              SelectUserId(users', last'.args.username)) = 0
        /\ (last'.op \notin {"set_automation_running", "create_user"})
             => \A id \in UserIds :
                   get_automation_running_result(user_configs', id)
                      = get_automation_running_result(user_configs, id)
        /\ \A id \in UserIds :
               ConfigRows(user_configs', id) = {}
                  => get_automation_running_result(user_configs', id) = 0
      ]_vars

\* C6: under sequential use, after every set_admin_e2ee_thread_id(id, ...)
\* call admin_threads holds exactly one row for id, with the thread id,
\* cookies and chat type of that call, and get_admin_e2ee_thread_id(id)
\* returns that thread id; no other operation touches admin_threads, so
\* before the first call the answer is None.
C6_UpsertKeepsOneLatestRow ==
    [][ /\ CallStep("set_admin_e2ee_thread_id")
             => /\ Cardinality(ThreadRows(admin_threads', last'.args.user_id)) = 1
                /\ \A j \in ThreadRows(admin_threads', last'.args.user_id) :
                      admin_threads'[j] = [user_id |-> last'.args.user_id,
                                           thread_id |-> last'.args.thread.thread_id,
                                           cookies |-> last'.args.thread.cookies,
                                           chat_type |-> last'.args.thread.chat_type]
                /\ get_admin_e2ee_thread_id_result(admin_threads', last'.args.user_id)
                      = Some(last'.args.thread.thread_id)
        /\ last'.op # "set_admin_e2ee_thread_id" => admin_threads' = admin_threads
        /\ \A id \in UserIds :
               ThreadRows(admin_threads, id) = {}
                  => get_admin_e2ee_thread_id_result(admin_threads, id) = None
      ]_vars

\* C7: in every committed state each users row has exactly one user_configs
\* row with its id and each user_configs row has a users row, whatever store
\* call of create_user fails.
C7_NoOrphanedUser ==
    /\ \A i \in DOMAIN users : Cardinality(ConfigRows(user_configs, users[i].id)) = 1
    /\ \A j \in DOMAIN user_configs : Cardinality(ById(users, user_configs[j].user_id)) = 1

\* C7 witness: an account exists, and the last create_user failed between
\* its INSERT INTO users and its INSERT INTO user_configs
C7_Witness ==
    /\ last.op = "create_user"
    /\ last.fault \in {"select_id", "insert_config"}
    /\ last.ret.ok = FALSE
    /\ Len(users) >= 1

\* C8: every operation that opened a connection has closed it when it returns.
C8_ConnectionAlwaysClosed == last.acquired => last.closed

\* C9: no operation ends by raising an exception.
C9_NoExceptionEscapes == ~last.raised

\* C10: with two concurrent set_admin_e2ee_thread_id calls, admin_threads
\* (committed or inside an open transaction) never holds two rows for one
\* user, and two calls for the same user that both saw no row never both
\* return True: the later INSERT fails and its caller returns False.
BothSawAbsent(p, q) ==
    /\ p # q
    /\ loc[p].user_id # None /\ loc[p].user_id = loc[q].user_id
    /\ loc[p].existing = Some(FALSE) /\ loc[q].existing = Some(FALSE)

C10_AtMostOneThreadRow ==
    /\ \A id \in UserIds : Cardinality(ThreadRows(admin_threads, id)) <= 1
    /\ \A p \in Procs : loc[p].work # None =>
          \A id \in UserIds : Cardinality(ThreadRows(loc[p].work[1], id)) <= 1
    /\ \A p, q \in Procs :
          BothSawAbsent(p, q) => ~(loc[p].ret = Some(TRUE) /\ loc[q].ret = Some(TRUE))

\* C10 witness: both callers saw no row for the same user; one committed its
\* INSERT, the other's INSERT hit the primary key and it returned False
C10_Witness ==
    \E p, q \in Procs :
        /\ BothSawAbsent(p, q)
        /\ loc[p].ret = Some(TRUE)
        /\ loc[q].ret = Some(FALSE) /\ loc[q].exit = "integrity"
        /\ Cardinality(ThreadRows(admin_threads, loc[p].user_id[1])) = 1

=============================================================================
